---- MODULE Spec2Model ----
(***************************************************************************)
(* State-sequence inference of internals/states.py: the HMM forward and    *)
(* backward recursions and Gibbs forward sampling (HMMStatesPython), the   *)
(* duration-aware HSMM recursion and segment sampler (HSMMStatesPython),   *)
(* the changepoint-block variant and the geometric-tail variant.           *)
(*                                                                         *)
(* Number encoding.  The code works on log-domain floats.  A log-domain    *)
(* value x is held here as the exact non-negative rational e^x, a pair     *)
(* <<numerator, denominator>> in lowest terms: -inf is <<0,1>>, 0. is      *)
(* <<1,1>>, log-domain "+" is RMul, np.logaddexp is RAdd.  The one place   *)
(* where floating point is not exact arithmetic on these values and the    *)
(* code itself reacts to it (the "numerical issue" branch of the HSMM      *)
(* sampler) is np.exp of a large negative number, which returns 0.: Exp    *)
(* flushes a ratio below 1/ExpRange to zero.  NaN ((-inf) - (-inf)) is     *)
(* detected where the code would produce it.                               *)
(***************************************************************************)
EXTENDS Integers, Sequences, FiniteSets, TLC

VARIABLES
    cls,                  \* class of the states object
    T, data,              \* self.T, self.data (a sequence of observation symbols)
    pi0, A, dur_distns,   \* model.init_state_distn.pi_0, model.trans_distn.A, model.dur_distns
    censoring, trunc,     \* self.censoring, self.trunc
    changepoints,         \* self.changepoints (block variant)
    pc, entry, err,       \* position in the call, entry point, raised exception
    aBl, aBBl, alphal, betal, betastarl, t,
    expectations,         \* self.expectations (E_step)
    idx, nextstate_unsmoothed, state, dur, durprob, prob_so_far,
    stateseq, stateseq_norep, durations,  \* the method's locals (stateseq is blockstateseq in the block variant)
    self_stateseq, self_stateseq_norep, self_durations   \* the attributes self.stateseq, self.stateseq_norep, self.durations

vars == <<cls, T, data, pi0, A, dur_distns, censoring, trunc, changepoints,
          pc, entry, err, aBl, aBBl, alphal, betal, betastarl, t, expectations,
          idx, nextstate_unsmoothed, state, dur, durprob, prob_so_far,
          stateseq, stateseq_norep, durations,
          self_stateseq, self_stateseq_norep, self_durations>>

objVars == <<cls, T, data, dur_distns, censoring, changepoints>>
modelVars == <<pi0, A>>
msgVars == <<aBl, aBBl, alphal, betal, betastarl, t, expectations>>
durVars == <<state, dur, durprob, prob_so_far>>
localVars == <<stateseq, stateseq_norep, durations>>
selfVars == <<self_stateseq, self_stateseq_norep, self_durations>>
seqVars == <<localVars, selfVars>>

-----------------------------------------------------------------------------
\* Bounds of the model.

\* Longest observation sequence.
MaxT == 2

\* np.exp(x) returns 0. once e^x is below 1/ExpRange: the finite range and
\* precision of the double format, scaled to the model's numbers.  All other
\* arithmetic is exact.
ExpRange == 4

\* model.state_dim
state_dim == 2

States == 0 .. (state_dim - 1)

-----------------------------------------------------------------------------
\* Exact arithmetic on non-negative rationals.

RECURSIVE GCD(_, _)
GCD(a, b) == IF b = 0 THEN a ELSE GCD(b, a % b)

Rat(n, d) == IF n = 0 THEN <<0, 1>> ELSE <<n \div GCD(n, d), d \div GCD(n, d)>>

Zero == <<0, 1>>

One == <<1, 1>>

\* the float NaN, which (-inf) - (-inf) produces
NaN == <<0, 0>>

RAdd(x, y) == Rat(x[1] * y[2] + y[1] * x[2], x[2] * y[2])

RMul(x, y) == Rat(x[1] * y[1], x[2] * y[2])

RDiv(x, y) == Rat(x[1] * y[2], x[2] * y[1])

RLess(x, y) == x[1] * y[2] < y[1] * x[2]

RLeq(x, y) == x[1] * y[2] <= y[1] * x[2]

RMax(x, y) == IF RLess(x, y) THEN y ELSE x

\* np.logaddexp.reduce over the entries f[lo..hi] (Zero for an empty range).
RECURSIVE RSum(_, _, _)
RSum(f, lo, hi) == IF hi < lo THEN Zero ELSE RAdd(RSum(f, lo, hi - 1), f[hi])

\* product of the entries f[lo..hi]: np.sum / np.cumsum of log-likelihoods.
RECURSIVE RProd(_, _, _)
RProd(f, lo, hi) == IF hi < lo THEN One ELSE RMul(RProd(f, lo, hi - 1), f[hi])

\* np.amax over a vector indexed by States.
RECURSIVE AMaxUpTo(_, _)
AMaxUpTo(v, k) == IF k = 0 THEN v[0] ELSE RMax(AMaxUpTo(v, k - 1), v[k])

AMax(v) == AMaxUpTo(v, state_dim - 1)

\* np.exp(x - m) for log-domain x <= m, m finite: the ratio e^x / e^m, or 0.
\* when the ratio is too small for the float format to keep.
Exp(x, m) == IF RLess(RMul(x, <<ExpRange, 1>>), m) THEN Zero ELSE RDiv(x, m)

Vec(a, b) == [k \in States |-> IF k = 0 THEN a ELSE b]

ZeroVec == [k \in States |-> Zero]

OneVec == [k \in States |-> One]

\* np.zeros((n, state_dim)) as a log-domain matrix: every entry is log-value 0.
Zeros(n) == [i \in 0 .. (n - 1) |-> OneVec]

\* a[i] with Python's wrap-around of a negative index
PyIndex(i, n) == IF i < 0 THEN i + n ELSE i

-----------------------------------------------------------------------------
\* The model object and the data: what the caller supplies.

Half == <<1, 2>>

\* model.init_state_distn.pi_0
Pi0Choices == {Vec(One, Zero), Vec(Zero, One), Vec(Half, Half)}

\* rows of model.trans_distn.A (row-stochastic, exact zeros allowed)
RowChoices == {Vec(One, Zero), Vec(Zero, One), Vec(Half, Half)}

AChoices == [States -> RowChoices]

\* the transition matrices with zero self-transition probability
NoSelfA == {M \in AChoices : \A k \in States : M[k][k] = Zero}

\* The observation alphabet.  obs_distns[k].log_likelihood(o), as e^value:
\* "u" is uninformative, "a"/"b" favour state 0/1, "na"/"nb" rule state 0/1 out.
Obs == {"u", "a", "b", "na", "nb"}

ObsLik(o) ==
    CASE o = "u" -> Vec(One, One)
      [] o = "a" -> Vec(<<16, 1>>, One)
      [] o = "b" -> Vec(One, <<16, 1>>)
      [] o = "na" -> Vec(Zero, One)
      [] o = "nb" -> Vec(One, Zero)

DataChoices(alphabet, n) == [0 .. (n - 1) -> alphabet]

-----------------------------------------------------------------------------
\* HMMStatesPython

\* get_aBl: aBl[t,k] = obs_distns[k].log_likelihood(data)[t]
get_aBl(d, n) == [i \in 0 .. (n - 1) |-> ObsLik(d[i])]

\* nextstate_unsmoothed is a reference to pi_0 or a view of a row of A
Deref(ref, Aheap, pi0heap) == IF ref[1] = "pi0" THEN pi0heap ELSE Aheap[ref[2]]

\* messages_forwards, line 66: alphal[0] = log(pi_0) + aBl[0]
ForwardInit(p, lik) == [k \in States |-> RMul(p[k], lik[k])]

\* messages_forwards, line 69 with Al read as A: the reduce runs over the
\* source state j of column k
ForwardTransposed(prev, M, lik) ==
    [k \in States |-> RMul(RSum([j \in States |-> RMul(prev[j], M[k][j])], 0, state_dim - 1), lik[k])]

\* messages_forwards, line 69:
\* alphal[t+1] = logaddexp.reduce(alphal[t] + Al.T, axis=1) + aBl[t+1]
ForwardRow(prev, M, lik) ==
    [k \in States |-> RMul(RSum([j \in States |-> RMul(prev[j], M[j][k])], 0, state_dim - 1), lik[k])]

\* messages_backwards, line 79:
\* betal[t] = logaddexp.reduce(Al + betal[t+1] + aBl[t+1], axis=1)
BackwardRow(next, M, lik) ==
    [k \in States |-> RSum([j \in States |-> RMul(M[k][j], RMul(next[j], lik[j]))], 0, state_dim - 1)]

\* E_step, lines 116-120: one row of exp(alphal + betal - rowmax) / rowsum;
\* a row whose entries are all -inf comes out as NaN
ExpectationRow(a, b) ==
    LET e == [k \in States |-> RMul(a[k], b[k])]
        m == AMax(e)
        x == [k \in States |-> Exp(e[k], m)]
    IN IF m = Zero THEN [k \in States |-> NaN]
       ELSE [k \in States |-> RDiv(x[k], RSum(x, 0, state_dim - 1))]

\* sample_forwards, lines 92-94, writing the weights through the pending
\* reference (nextstate_unsmoothed *= ...) instead of into a fresh array
HMMSampleWeightsInPlace(Aheap, pi0heap, ref, brow, lik) ==
    LET pend == Deref(ref, Aheap, pi0heap)
        logdomain == [k \in States |-> IF pend[k] = Zero THEN Zero ELSE RMul(brow[k], lik[k])]
        m == AMax(logdomain)
        w == IF m = Zero THEN [k \in States |-> NaN]
             ELSE [k \in States |-> RMul(pend[k], Exp(logdomain[k], m))]
    IN [A |-> IF ref[1] = "pi0" THEN Aheap ELSE [Aheap EXCEPT ![ref[2]] = w],
        pi0 |-> IF ref[1] = "pi0" THEN w ELSE pi0heap,
        w |-> w]

\* sample_forwards, lines 92-94, without the pending distribution: neither the
\* -inf mask nor the product
HMMSampleWeightsUnmasked(Aheap, pi0heap, ref, brow, lik) ==
    LET logdomain == [k \in States |-> RMul(brow[k], lik[k])]
        m == AMax(logdomain)
    IN [A |-> Aheap, pi0 |-> pi0heap,
        w |-> IF m = Zero THEN [k \in States |-> NaN]
              ELSE [k \in States |-> Exp(logdomain[k], m)]]

\* sample_forwards, lines 92-94: logdomain = betal[idx] + aBl[idx] is a fresh
\* array; its entries where the pending distribution is exactly 0 are set to
\* -inf; the weights are nextstate_unsmoothed * exp(logdomain - amax(logdomain)),
\* again a fresh array.  The result is the heap after the three lines and the
\* weight vector handed to sample_discrete.
HMMSampleWeights(Aheap, pi0heap, ref, brow, lik) ==
    LET pend == Deref(ref, Aheap, pi0heap)
        logdomain == [k \in States |-> IF pend[k] = Zero THEN Zero ELSE RMul(brow[k], lik[k])]
        m == AMax(logdomain)
    IN [A |-> Aheap, pi0 |-> pi0heap,
        w |-> IF m = Zero THEN [k \in States |-> NaN]
              ELSE [k \in States |-> RMul(pend[k], Exp(logdomain[k], m))]]

\* util.stats.sample_discrete: the indices it can return, those of positive
\* weight.  An empty set is the all-zero (or NaN) vector, which it rejects.
sample_discrete(w) == {k \in DOMAIN w : w[k] # NaN /\ w[k] # Zero}

\* resample, lines 99-105: get_aBl, then messages_backwards is entered
HMMResample ==
    /\ pc = "ready" /\ cls = "HMM"
    /\ entry' = "resample"
    /\ aBl' = get_aBl(data, T)
    /\ betal' = Zeros(T)
    /\ t' = T - 2
    /\ pc' = "hmm_backwards"
    /\ UNCHANGED <<aBBl, objVars, modelVars, trunc, err, alphal, betastarl, expectations,
                   idx, nextstate_unsmoothed, durVars, seqVars>>

\* E_step, lines 111-114: get_aBl, then messages_forwards up to line 66
HMMEStep ==
    /\ pc = "ready" /\ cls = "HMM"
    /\ entry' = "E_step"
    /\ aBl' = get_aBl(data, T)
    /\ alphal' = [Zeros(T) EXCEPT ![0] = ForwardInit(pi0, ObsLik(data[0]))]
    /\ t' = 0
    /\ pc' = "hmm_forwards"
    /\ UNCHANGED <<aBBl, objVars, modelVars, trunc, err, betal, betastarl, expectations,
                   idx, nextstate_unsmoothed, durVars, seqVars>>

\* messages_forwards, one pass of the loop of lines 68-69
HMMForwardIter ==
    /\ pc = "hmm_forwards" /\ t < T - 1
    /\ alphal' = [alphal EXCEPT ![t + 1] = ForwardRow(alphal[t], A, aBl[t + 1])]
    /\ t' = t + 1
    /\ UNCHANGED <<aBBl, objVars, modelVars, trunc, pc, entry, err, aBl, betal, betastarl,
                   expectations, idx, nextstate_unsmoothed, durVars, seqVars>>

\* messages_forwards returns (line 71); E_step enters messages_backwards
HMMForwardReturn ==
    /\ pc = "hmm_forwards" /\ t >= T - 1
    /\ betal' = Zeros(T)
    /\ t' = T - 2
    /\ pc' = "hmm_backwards"
    /\ UNCHANGED <<aBBl, objVars, modelVars, trunc, entry, err, aBl, alphal, betastarl,
                   expectations, idx, nextstate_unsmoothed, durVars, seqVars>>

\* messages_backwards, one pass of the loop of lines 78-79
HMMBackwardIter ==
    /\ pc = "hmm_backwards" /\ t >= 0
    /\ betal' = [betal EXCEPT ![t] = BackwardRow(betal[t + 1], A, aBl[t + 1])]
    /\ t' = t - 1
    /\ UNCHANGED <<aBBl, objVars, modelVars, trunc, pc, entry, err, aBl, alphal, betastarl,
                   expectations, idx, nextstate_unsmoothed, durVars, seqVars>>

\* messages_backwards returns (line 81) into resample, which enters
\* sample_forwards (lines 86-89), or into E_step, which finishes (116-120)
HMMBackwardReturn ==
    /\ pc = "hmm_backwards" /\ t < 0
    /\ IF entry = "resample"
       THEN /\ pc' = "hmm_sample"
            /\ idx' = 0
            /\ stateseq' = [i \in 0 .. (T - 1) |-> 0]
            /\ nextstate_unsmoothed' = <<"pi0", 0>>
            /\ UNCHANGED expectations
       ELSE /\ pc' = "done"
            /\ expectations' = [i \in 0 .. (T - 1) |-> ExpectationRow(alphal[i], betal[i])]
            /\ UNCHANGED <<idx, stateseq, nextstate_unsmoothed>>
    /\ UNCHANGED <<aBBl, objVars, modelVars, trunc, entry, err, aBl, alphal, betal, betastarl, t,
                   durVars, stateseq_norep, durations, selfVars>>

\* sample_forwards, one pass of the loop of lines 91-95
HMMSampleIter ==
    /\ pc = "hmm_sample" /\ idx < T
    /\ LET r == HMMSampleWeights(A, pi0, nextstate_unsmoothed, betal[idx], aBl[idx])
       IN /\ A' = r.A
          /\ pi0' = r.pi0
          /\ IF sample_discrete(r.w) = {}
             THEN /\ pc' = "raised"
                  /\ err' = "DegenerateDistributionError"
                  /\ UNCHANGED <<idx, stateseq, nextstate_unsmoothed>>
             ELSE \E s \in sample_discrete(r.w) :
                  /\ stateseq' = [stateseq EXCEPT ![idx] = s]
                  /\ nextstate_unsmoothed' = <<"A", s>>
                  /\ idx' = idx + 1
                  /\ UNCHANGED <<pc, err>>
    /\ UNCHANGED <<objVars, trunc, entry, msgVars, durVars, stateseq_norep, durations, selfVars>>

\* sample_forwards, line 97: self.stateseq = stateseq
HMMSampleReturn ==
    /\ pc = "hmm_sample" /\ idx >= T
    /\ self_stateseq' = stateseq
    /\ pc' = "done"
    /\ UNCHANGED <<objVars, modelVars, trunc, entry, err, msgVars, idx, nextstate_unsmoothed,
                   durVars, localVars, self_stateseq_norep, self_durations>>

\* A call that raised or returned: nothing more happens.
Terminated == pc \in {"done", "raised"}

\* The object after construction with data and an explicit stateseq argument
\* (__init__, lines 11-19): no message has been computed yet.
InitCommon ==
    /\ T \in 1 .. MaxT
    /\ pi0 \in Pi0Choices
    /\ pc = "ready" /\ entry = "none" /\ err = "none"
    /\ aBl = <<>> /\ aBBl = <<>> /\ alphal = <<>> /\ betal = <<>> /\ betastarl = <<>> /\ t = 0
    /\ expectations = <<>>
    /\ idx = 0 /\ nextstate_unsmoothed = <<"pi0", 0>>
    /\ state = 0 /\ dur = 0 /\ durprob = "none" /\ prob_so_far = Zero
    /\ stateseq = <<>> /\ stateseq_norep = <<>> /\ durations = <<>>
    /\ self_stateseq = [i \in 0 .. (T - 1) |-> 0]

InitHMM ==
    /\ InitCommon
    /\ cls = "HMM"
    /\ data \in DataChoices(Obs, T)
    /\ A \in AChoices
    /\ dur_distns = <<>> /\ censoring = FALSE /\ trunc = 0 /\ changepoints = <<>>
    /\ self_stateseq_norep = <<>> /\ self_durations = <<>>

NextHMM ==
    \/ HMMResample
    \/ HMMEStep
    \/ HMMForwardIter
    \/ HMMForwardReturn
    \/ HMMBackwardIter
    \/ HMMBackwardReturn
    \/ HMMSampleIter
    \/ HMMSampleReturn

SpecHMM == InitHMM /\ [][NextHMM]_vars

-----------------------------------------------------------------------------
\* HSMMStatesPython

RECURSIVE Pow2(_)
Pow2(n) == IF n = 0 THEN 1 ELSE 2 * Pow2(n - 1)

\* The duration distributions a model can hold: a point mass at 1, a point
\* mass at 2, and the geometric distribution pmf(d) = 2^-d.
DurKinds == {"one", "two", "geo"}

\* dur_distn.pmf(d), d >= 1
DurPmf(kind, d) ==
    CASE kind = "one" -> IF d = 1 THEN One ELSE Zero
      [] kind = "two" -> IF d = 2 THEN One ELSE Zero
      [] kind = "geo" -> <<1, Pow2(d)>>

\* exp(dur_distn.log_sf(d)) = P(duration > d), d >= 1
DurSf(kind, d) ==
    CASE kind = "one" -> Zero
      [] kind = "two" -> IF d < 2 THEN One ELSE Zero
      [] kind = "geo" -> <<1, Pow2(d)>>

\* trunc=None, the constructor's default
NoTrunc == 0

\* resample, lines 274-279: aDl[d,k] = log_pmf(d+1), aDsl[d,k] = log_sf(d+1)
aDl(d, k) == DurPmf(dur_distns[k], d + 1)

aDsl(d, k) == DurSf(dur_distns[k], d + 1)

\* likelihood_block_state(start, stop, state): the slice aBl[start:stop] is
\* clipped at T
likelihood_block_state(lik, start, stop, k) ==
    RProd([s \in 0 .. (T - 1) |-> lik[s][k]], start, (IF stop > T THEN T ELSE stop) - 1)

Min(a, b) == IF a < b THEN a ELSE b

\* messages_backwards, line 236: the reduce over the min(trunc, T-t) rows
\* betal[t:t+trunc] + cumulative_likelihoods(t,t+trunc) + aDl[:min(trunc,T-t)]
BetastarlSum(lik, b, tt, tr, k) ==
    RSum([d \in 0 .. (Min(tr, T - tt) - 1) |->
             RMul(b[tt + d][k], RMul(likelihood_block_state(lik, tt, tt + d + 1, k), aDl(d, k)))],
         0, Min(tr, T - tt) - 1)

\* messages_backwards, lines 237-238: the right-censoring term
\* likelihood_block(t,None) + aDsl[T-t-1], added when T-t < trunc and censoring
CensoredTerm(lik, tt, tr, k) ==
    IF T - tt < tr /\ censoring
    THEN RMul(likelihood_block_state(lik, tt, T, k), aDsl(T - tt - 1, k))
    ELSE Zero

\* messages_backwards, lines 236-238: the row betastarl[t]
BetastarlRow(lik, b, tt, tr) ==
    [k \in States |-> RAdd(BetastarlSum(lik, b, tt, tr, k), CensoredTerm(lik, tt, tr, k))]

\* messages_backwards, line 239, writing row t instead of row t-1
BetalWriteAtT(b, tt, row) == [b EXCEPT ![tt] = row]

\* messages_backwards, line 239: the reduce is written to betal[t-1], which
\* for t = 0 is row T-1
BetalWrite(b, tt, row) == [b EXCEPT ![PyIndex(tt - 1, T)] = row]

\* messages_backwards, line 239: logaddexp.reduce(betastarl[t] + Al, axis=1)
BetalRow(bs, M) ==
    [k \in States |-> RSum([j \in States |-> RMul(bs[j], M[k][j])], 0, state_dim - 1)]

\* resample, lines 260-279, and the entry of messages_backwards, lines 229-233
HSMMResample ==
    /\ pc = "ready" /\ cls = "HSMM"
    /\ entry' = "resample"
    /\ trunc' = IF trunc = NoTrunc THEN T ELSE trunc
    /\ aBl' = get_aBl(data, T)
    /\ betal' = Zeros(T)
    /\ betastarl' = Zeros(T)
    /\ t' = T - 1
    /\ pc' = "hsmm_betastarl"
    /\ UNCHANGED <<aBBl, objVars, modelVars, err, alphal, expectations,
                   idx, nextstate_unsmoothed, durVars, seqVars>>

\* messages_backwards, lines 236-238 of one pass of the loop: betastarl[t]
HSMMBetastarl ==
    /\ pc = "hsmm_betastarl" /\ t >= 0
    /\ betastarl' = [betastarl EXCEPT ![t] = BetastarlRow(aBl, betal, t, trunc)]
    /\ pc' = "hsmm_betal"
    /\ UNCHANGED <<aBBl, objVars, modelVars, trunc, entry, err, aBl, alphal, betal, t, expectations,
                   idx, nextstate_unsmoothed, durVars, seqVars>>

\* messages_backwards, line 239 of one pass of the loop: betal[t-1]
HSMMBetal ==
    /\ pc = "hsmm_betal"
    /\ betal' = BetalWrite(betal, t, BetalRow(betastarl[t], A))
    /\ t' = t - 1
    /\ pc' = "hsmm_betastarl"
    /\ UNCHANGED <<aBBl, objVars, modelVars, trunc, entry, err, aBl, alphal, betastarl, expectations,
                   idx, nextstate_unsmoothed, durVars, seqVars>>

\* messages_backwards, lines 240-242 (betal[-1] = 0., return), and the
\* entry of sample_forwards, lines 290-302
HSMMBackwardReturn ==
    /\ pc = "hsmm_betastarl" /\ t < 0
    /\ betal' = [betal EXCEPT ![T - 1] = OneVec]
    /\ stateseq' = [i \in 0 .. (T - 1) |-> 0]
    /\ self_stateseq' = [i \in 0 .. (T - 1) |-> 0]
    /\ durations' = <<>>
    /\ stateseq_norep' = <<>>
    /\ idx' = 0
    /\ nextstate_unsmoothed' = <<"pi0", 0>>
    /\ pc' = "hsmm_state"
    /\ UNCHANGED <<aBBl, objVars, modelVars, trunc, entry, err, aBl, alphal, betastarl, t, expectations,
                   durVars, self_stateseq_norep, self_durations>>

\* sample_forwards, lines 305-309: nextstate_distr.  The product of the
\* pending distribution and exp(betastarl[idx] - amax); when every entry of
\* the product is 0., exp(betastarl[idx] - amax) alone; NaN when betastarl[idx]
\* is all -inf
NextstateDistr(bsrow, pend) ==
    LET m == AMax(bsrow)
        e == [k \in States |-> Exp(bsrow[k], m)]
        prod == [k \in States |-> RMul(e[k], pend[k])]
    IN IF m = Zero THEN [k \in States |-> NaN]
       ELSE IF \A k \in States : prod[k] = Zero THEN e
       ELSE prod

\* sample_forwards, lines 301-302 and 338: after the loop that fills apmf,
\* dur_distn is the duration distribution of the last state of the model
dur_distn == dur_distns[state_dim - 1]

\* sample_forwards, line 320: p_d_marg
p_d_marg(k, d) == IF d < T THEN DurPmf(dur_distns[k], d + 1) ELSE One

\* sample_forwards, lines 327-328: the log-domain argument of mess_term
\* without the subtraction of betastarl[idx,state]
MessArg(i, d, k) == RMul(likelihood_block_state(aBl, i, i + d + 1, k), betal[i + d][k])

\* sample_forwards, line 338: the values
\* sample_discrete(dur_distn.pmf(np.arange(dur+1, 3*self.T))) can return
CensoredDraws(d) ==
    sample_discrete([i \in 0 .. (3 * T - d - 2) |-> DurPmf(dur_distn, d + 1 + i)])

\* sample_forwards, line 352, advancing by one step instead of by dur
NextIdxByOne(i, d) == i + 1

\* sample_forwards, line 352: idx += dur
NextIdx(i, d) == i + d

\* stateseq[idx:idx+dur] = state (line 345): the slice is clipped at T
FillSlice(seq, i, d, k) ==
    [j \in 0 .. (T - 1) |-> IF i <= j /\ j < i + d THEN k ELSE seq[j]]

\* sample_forwards, lines 304-315: the state of the next segment is drawn,
\* the no-repeat assertion of line 311 is evaluated, durprob = random()
HSMMSampleState ==
    /\ pc = "hsmm_state" /\ idx < T
    /\ LET nd == NextstateDistr(betastarl[idx], Deref(nextstate_unsmoothed, A, pi0))
       IN IF sample_discrete(nd) = {}
          THEN /\ pc' = "raised"
               /\ err' = "DegenerateDistributionError"
               /\ UNCHANGED durVars
          ELSE \E s \in sample_discrete(nd) :
               /\ state' = s
               /\ IF Len(stateseq_norep) # 0 /\ s = stateseq_norep[Len(stateseq_norep)]
                  THEN /\ pc' = "raised"
                       /\ err' = "AssertionError:311"
                       /\ UNCHANGED <<dur, durprob, prob_so_far>>
                  ELSE /\ pc' = "hsmm_dur"
                       /\ durprob' \in {"gt0", "le0"}   \* random() is in [0, 1): 0. included
                       /\ dur' = 0
                       /\ prob_so_far' = Zero
                       /\ UNCHANGED err
    /\ UNCHANGED <<objVars, modelVars, trunc, entry, msgVars, idx, nextstate_unsmoothed, seqVars>>

\* sample_forwards, one pass of the duration loop of lines 316-341.  durprob
\* is random() minus the p_d accumulated in prob_so_far: after a pass it can
\* still be positive when prob_so_far < 1, and can have become non-positive
\* when the pass added a positive p_d.
HSMMDurIter ==
    /\ pc = "hsmm_dur" /\ durprob = "gt0"
    /\ IF dur >= 2 * T
       THEN /\ pc' = "raised" /\ err' = "AssertionError:317"
            /\ UNCHANGED <<dur, durprob, prob_so_far>>
       ELSE IF p_d_marg(state, dur) = Zero
       THEN /\ dur' = dur + 1
            /\ UNCHANGED <<pc, err, durprob, prob_so_far>>
       ELSE IF idx + dur < T
       THEN IF betastarl[idx][state] = Zero
            THEN /\ pc' = "raised" /\ err' = "AssertionError:332"
                 /\ UNCHANGED <<dur, durprob, prob_so_far>>
            ELSE LET p_d == RMul(Exp(MessArg(idx, dur, state), betastarl[idx][state]),
                                 p_d_marg(state, dur))
                 IN /\ prob_so_far' = RAdd(prob_so_far, p_d)
                    /\ durprob' \in {x \in {"gt0", "le0"} :
                                        \/ x = "gt0" /\ RLess(RAdd(prob_so_far, p_d), One)
                                        \/ x = "le0" /\ p_d # Zero}
                    /\ dur' = dur + 1
                    /\ UNCHANGED <<pc, err>>
       ELSE IF censoring
       THEN IF CensoredDraws(dur) = {}
            THEN /\ pc' = "raised" /\ err' = "DegenerateDistributionError"
                 /\ UNCHANGED <<dur, durprob, prob_so_far>>
            ELSE /\ \E i \in CensoredDraws(dur) : dur' = dur + i
                 /\ durprob' = "le0"
                 /\ UNCHANGED <<pc, err, prob_so_far>>
       ELSE /\ dur' = dur + 1
            /\ durprob' = "le0"
            /\ UNCHANGED <<pc, err, prob_so_far>>
    /\ UNCHANGED <<objVars, modelVars, trunc, entry, msgVars, idx, nextstate_unsmoothed,
                   state, seqVars>>

\* sample_forwards, lines 343-352: the segment is recorded
HSMMRecord ==
    /\ pc = "hsmm_dur" /\ durprob = "le0"
    /\ IF dur <= 0
       THEN /\ pc' = "raised" /\ err' = "AssertionError:343"
            /\ UNCHANGED <<idx, nextstate_unsmoothed, localVars, self_stateseq>>
       ELSE /\ stateseq' = FillSlice(stateseq, idx, dur, state)
            /\ self_stateseq' = FillSlice(stateseq, idx, dur, state)
            /\ stateseq_norep' = Append(stateseq_norep, state)
            /\ IF Len(stateseq_norep) >= 1 /\ state = stateseq_norep[Len(stateseq_norep)]
               THEN /\ pc' = "raised" /\ err' = "AssertionError:347"
                    /\ UNCHANGED <<durations, nextstate_unsmoothed, idx>>
               ELSE /\ durations' = Append(durations, dur)
                    /\ nextstate_unsmoothed' = <<"A", state>>
                    /\ idx' = NextIdx(idx, dur)
                    /\ pc' = "hsmm_state"
                    /\ UNCHANGED err
    /\ UNCHANGED <<objVars, modelVars, trunc, entry, msgVars, durVars,
                   self_stateseq_norep, self_durations>>

\* sample_forwards, lines 354-355, and the return of resample
HSMMSampleReturn ==
    /\ pc = "hsmm_state" /\ idx >= T
    /\ self_durations' = durations
    /\ self_stateseq_norep' = stateseq_norep
    /\ pc' = "done"
    /\ UNCHANGED <<objVars, modelVars, trunc, entry, err, msgVars, idx, nextstate_unsmoothed,
                   durVars, localVars, self_stateseq>>

\* The HSMM object after construction with data and an explicit stateseq
\* argument (lines 193-197): the run-length encoding of the all-zero sequence.
InitHSMM ==
    /\ InitCommon
    /\ cls = "HSMM"
    /\ data \in DataChoices(Obs, T)
    /\ A \in NoSelfA
    /\ dur_distns \in [States -> DurKinds]
    /\ censoring \in BOOLEAN
    /\ trunc \in {NoTrunc} \cup (1 .. T)
    /\ changepoints = <<>>
    /\ self_stateseq_norep = <<0>> /\ self_durations = <<T>>

NextHSMM ==
    \/ HSMMResample
    \/ HSMMBetastarl
    \/ HSMMBetal
    \/ HSMMBackwardReturn
    \/ HSMMSampleState
    \/ HSMMDurIter
    \/ HSMMRecord
    \/ HSMMSampleReturn

SpecHSMM == InitHSMM /\ [][NextHSMM]_vars

\* messages_backwards (lines 228-242) as a function of its inputs: the loop
\* from pass tt down to 0, then betal[-1] = 0.
RECURSIVE HSMMBackwardFrom(_, _, _, _, _)
HSMMBackwardFrom(lik, tt, tr, b, bs) ==
    IF tt < 0 THEN [betal |-> [b EXCEPT ![T - 1] = OneVec], betastarl |-> bs]
    ELSE HSMMBackwardFrom(lik, tt - 1, tr,
                          BetalWrite(b, tt, BetalRow(BetastarlRow(lik, b, tt, tr), A)),
                          [bs EXCEPT ![tt] = BetastarlRow(lik, b, tt, tr)])

HSMM_messages_backwards(lik, tr) == HSMMBackwardFrom(lik, T - 1, tr, Zeros(T), Zeros(T))

-----------------------------------------------------------------------------
\* HSMMStatesPossibleChangepoints

\* __init__, line 408: Tblock = len(changepoints)
Tblock == Len(changepoints)

\* __init__, line 407: blocklens, for block b = 0 .. Tblock-1
blocklen(b) == changepoints[b + 1][2] - changepoints[b + 1][1]

\* blocklens[tb:].cumsum()[i]
RECURSIVE CumLen(_, _)
CumLen(tb, i) == IF i < 0 THEN 0 ELSE CumLen(tb, i - 1) + blocklen(tb + i)

Max(a, b) == IF a < b THEN b ELSE a

\* lines 419-420 and 476-477: possible_durations, the cumulative block
\* lengths from block tb on that are < max(trunc, possible_durations[0]+1)
possible_durations(tb, tr) ==
    SelectSeq([i \in 1 .. (Tblock - tb) |-> CumLen(tb, i - 1)],
              LAMBDA d : d < Max(tr, CumLen(tb, 0) + 1))

\* get_aBl, lines 442-446: aBBl[b] = aBl[start:stop].sum(0), the slice
\* clipped at T
block_aBBl(lik) ==
    [b \in 0 .. (Tblock - 1) |->
        [k \in States |->
            likelihood_block_state(lik, changepoints[b + 1][1], changepoints[b + 1][2], k)]]

\* block_cumulative_likelihood_state: aBBl[tb:...,k].cumsum(0)[i]
block_cumulative_likelihood_state(tb, i, k) ==
    RProd([b \in 0 .. (Tblock - 1) |-> aBBl[b][k]], tb, tb + i)

\* aDl[possible_durations-1] is an index error when a duration exceeds the
\* T rows of aDl
DurationIndexError(tb, tr) ==
    \E i \in 1 .. Len(possible_durations(tb, tr)) : possible_durations(tb, tr)[i] - 1 >= T

\* line 422: normalizer = logaddexp.reduce(aDl[possible_durations-1], axis=0)
normalizer(tb, tr, k) ==
    RSum([i \in 1 .. Len(possible_durations(tb, tr)) |-> aDl(possible_durations(tb, tr)[i] - 1, k)],
         1, Len(possible_durations(tb, tr)))

\* lines 424-426: the row betastarl[tblock]; an entry is NaN when the
\* normalizer of its state is -inf
BlockBetastarlRow(b, tb, tr) ==
    [k \in States |->
        IF normalizer(tb, tr, k) = Zero THEN NaN
        ELSE RDiv(RSum([i \in 1 .. Len(possible_durations(tb, tr)) |->
                           RMul(b[tb + i - 1][k],
                                RMul(block_cumulative_likelihood_state(tb, i - 1, k),
                                     aDl(possible_durations(tb, tr)[i] - 1, k)))],
                       1, Len(possible_durations(tb, tr))),
                  normalizer(tb, tr, k))]

\* resample (lines 260-279) with the overridden get_aBl (lines 440-447, which
\* returns None), and the entry of messages_backwards (lines 412-416)
BlockResample ==
    /\ pc = "ready" /\ cls = "Changepoints"
    /\ entry' = "resample"
    /\ trunc' = IF trunc = NoTrunc THEN T ELSE trunc
    /\ aBBl' = block_aBBl(get_aBl(data, T))
    /\ betal' = Zeros(Tblock)
    /\ betastarl' = Zeros(Tblock)
    /\ t' = Tblock - 1
    /\ pc' = "block_betastarl"
    /\ UNCHANGED <<objVars, modelVars, err, aBl, alphal, expectations,
                   idx, nextstate_unsmoothed, durVars, seqVars>>

\* messages_backwards, lines 419-426 of one pass of the loop.  A NaN entry
\* stays NaN through every later pass and fails the assertions of lines
\* 431-432; the call is ended where the NaN appears.
BlockBetastarl ==
    /\ pc = "block_betastarl" /\ t >= 0
    /\ IF DurationIndexError(t, trunc)
       THEN /\ pc' = "raised" /\ err' = "IndexError"
            /\ UNCHANGED betastarl
       ELSE IF \E k \in States : BlockBetastarlRow(betal, t, trunc)[k] = NaN
       THEN /\ pc' = "raised" /\ err' = "AssertionError:431"
            /\ UNCHANGED betastarl
       ELSE /\ betastarl' = [betastarl EXCEPT ![t] = BlockBetastarlRow(betal, t, trunc)]
            /\ pc' = "block_betal"
            /\ UNCHANGED err
    /\ UNCHANGED <<objVars, modelVars, trunc, entry, aBl, aBBl, alphal, betal, t, expectations,
                   idx, nextstate_unsmoothed, durVars, seqVars>>

\* messages_backwards, line 428 of one pass of the loop: betal[tblock-1]
BlockBetal ==
    /\ pc = "block_betal"
    /\ betal' = [betal EXCEPT ![PyIndex(t - 1, Tblock)] = BetalRow(betastarl[t], A)]
    /\ t' = t - 1
    /\ pc' = "block_betastarl"
    /\ UNCHANGED <<objVars, modelVars, trunc, entry, err, aBl, aBBl, alphal, betastarl,
                   expectations, idx, nextstate_unsmoothed, durVars, seqVars>>

\* messages_backwards, lines 429-438, and the entry of sample_forwards,
\* lines 456-466
BlockBackwardReturn ==
    /\ pc = "block_betastarl" /\ t < 0
    /\ betal' = [betal EXCEPT ![Tblock - 1] = OneVec]
    /\ stateseq' = [b \in 0 .. (Tblock - 1) |-> 0]
    /\ idx' = 0
    /\ nextstate_unsmoothed' = <<"pi0", 0>>
    /\ pc' = "block_sample"
    /\ UNCHANGED <<objVars, modelVars, trunc, entry, err, aBl, aBBl, alphal, betastarl, t,
                   expectations, durVars, stateseq_norep, durations, selfVars>>

\* sample_forwards, lines 470-471: exp(betastarl[tblock] - amax) * pending
BlockNextstateDistr(bsrow, pend) ==
    IF AMax(bsrow) = Zero THEN [k \in States |-> NaN]
    ELSE [k \in States |-> RMul(Exp(bsrow[k], AMax(bsrow)), pend[k])]

\* line 485: logpmf, without the subtraction of betastarl[tblock,state],
\* which sample_discrete_from_log's own subtraction of the maximum cancels
BlockLogpmf(tb, tr, k) ==
    [i \in 1 .. Len(possible_durations(tb, tr)) |->
        RMul(aDl(possible_durations(tb, tr)[i] - 1, k),
             RMul(block_cumulative_likelihood_state(tb, i - 1, k), betal[tb + i - 1][k]))]

RECURSIVE SeqMax(_, _)
SeqMax(q, n) == IF n = 0 THEN Zero ELSE RMax(SeqMax(q, n - 1), q[n])

\* util.stats.sample_discrete_from_log: the maximum is subtracted, the
\* result exponentiated and handed to sample_discrete
sample_discrete_from_log(lw) ==
    IF SeqMax(lw, Len(lw)) = Zero THEN {}
    ELSE sample_discrete([i \in 1 .. Len(lw) |-> Exp(lw[i], SeqMax(lw, Len(lw)))])

\* lines 480-490: the values blockdur can take (sample_discrete_from_log
\* returns a 0-based index; the sequences here are 1-based)
BlockDurs(tb, tr, k) ==
    IF Len(possible_durations(tb, tr)) > 1
    THEN sample_discrete_from_log(BlockLogpmf(tb, tr, k))
    ELSE {1}

\* lines 501-503: the per-timestep sequence, zeros overwritten block by block
\* with stateseq[start:stop] = state, each slice clipped at T
ExpandBlocks(bs) ==
    [j \in 0 .. (T - 1) |->
        LET cover == {b \in 0 .. (Tblock - 1) :
                         changepoints[b + 1][1] <= j /\ j < changepoints[b + 1][2]}
        IN IF cover = {} THEN 0
           ELSE bs[CHOOSE b \in cover : \A c \in cover : c <= b]]

\* util.general.rle: the run-length encoding of seq[i..T-1] appended to
\* (norep, durs)
RECURSIVE RleFrom(_, _, _, _)
RleFrom(seq, i, norep, durs) ==
    IF i >= T THEN [norep |-> norep, durations |-> durs]
    ELSE IF norep # <<>> /\ norep[Len(norep)] = seq[i]
    THEN RleFrom(seq, i + 1, norep, [durs EXCEPT ![Len(durs)] = @ + 1])
    ELSE RleFrom(seq, i + 1, Append(norep, seq[i]), Append(durs, 1))

rle(seq) == RleFrom(seq, 0, <<>>, <<>>)

\* sample_forwards, one pass of the loop of lines 468-497
BlockSampleIter ==
    /\ pc = "block_sample" /\ idx < Tblock
    /\ LET nd == BlockNextstateDistr(betastarl[idx], Deref(nextstate_unsmoothed, A, pi0))
       IN IF sample_discrete(nd) = {}
          THEN /\ pc' = "raised" /\ err' = "DegenerateDistributionError"
               /\ UNCHANGED <<idx, state, stateseq, nextstate_unsmoothed>>
          ELSE \E s \in sample_discrete(nd) :
               /\ state' = s
               /\ IF BlockDurs(idx, trunc, s) = {}
                  THEN /\ pc' = "raised" /\ err' = "DegenerateDistributionError"
                       /\ UNCHANGED <<idx, stateseq, nextstate_unsmoothed>>
                  ELSE \E blockdur \in BlockDurs(idx, trunc, s) :
                       /\ stateseq' = [b \in 0 .. (Tblock - 1) |->
                                          IF idx <= b /\ b < idx + blockdur THEN s ELSE stateseq[b]]
                       /\ idx' = idx + blockdur
                       /\ nextstate_unsmoothed' = <<"A", s>>
                       /\ UNCHANGED <<pc, err>>
    /\ UNCHANGED <<objVars, modelVars, trunc, entry, msgVars, dur, durprob, prob_so_far,
                   stateseq_norep, durations, selfVars>>

\* sample_forwards, lines 499-507
BlockSampleReturn ==
    /\ pc = "block_sample" /\ idx >= Tblock
    /\ self_stateseq' = ExpandBlocks(stateseq)
    /\ self_stateseq_norep' = rle(ExpandBlocks(stateseq)).norep
    /\ self_durations' = rle(ExpandBlocks(stateseq)).durations
    /\ pc' = "done"
    /\ UNCHANGED <<objVars, modelVars, trunc, entry, err, msgVars, idx, nextstate_unsmoothed,
                   durVars, localVars>>

\* the intervals between consecutive elements of a set of boundaries
Intervals(B) == {p \in B \X B : p[1] < p[2] /\ \A c \in B : ~(p[1] < c /\ c < p[2])}

\* a set of intervals with distinct starts, as a list ordered by start
ListOf(S) ==
    CHOOSE q \in [1 .. Cardinality(S) -> S] :
        \A i, j \in 1 .. Cardinality(S) : i < j => q[i][1] < q[j][1]

\* the changepoints lists that partition [0, n)
Tilings(n) == {ListOf(Intervals({0, n} \cup C)) : C \in SUBSET (1 .. (n - 1))}

\* changepoints lists that do not partition [0, n): a tiling with its last
\* block dropped (stops short), its last stop moved past n or before n, its
\* first start moved off 0 (gap), or the start of a later block moved back
\* (overlap)
Defective(n) ==
    UNION {
        {SubSeq(q, 1, Len(q) - 1) : x \in {y \in {0} : Len(q) > 1}}
        \cup {[q EXCEPT ![Len(q)] = <<q[Len(q)][1], n + 1>>]}
        \cup {[q EXCEPT ![Len(q)] = <<q[Len(q)][1], n - 1>>] : x \in {y \in {0} : q[Len(q)][1] < n - 1}}
        \cup {[q EXCEPT ![1] = <<1, q[1][2]>>] : x \in {y \in {0} : q[1][2] > 1}}
        \cup {[q EXCEPT ![i] = <<q[i][1] - 1, q[i][2]>>] : i \in 2 .. Len(q)}
        : q \in Tilings(n)}

\* contiguous, non-overlapping, covering [0, n) exactly
Tiles(cp, n) ==
    /\ Len(cp) >= 1
    /\ cp[1][1] = 0
    /\ cp[Len(cp)][2] = n
    /\ \A i \in 1 .. Len(cp) : cp[i][1] < cp[i][2]
    /\ \A i \in 1 .. (Len(cp) - 1) : cp[i][2] = cp[i + 1][1]

\* The block-variant object after construction with data, changepoints and an
\* explicit stateseq argument (lines 404-409, 193-197); no check is made of
\* changepoints.
InitBlock ==
    /\ InitCommon
    /\ cls = "Changepoints"
    /\ data \in DataChoices(Obs \ {"b", "na"}, T)
    /\ A \in NoSelfA
    /\ dur_distns \in [States -> DurKinds]
    /\ censoring \in BOOLEAN
    /\ trunc \in {NoTrunc} \cup (1 .. T)
    /\ changepoints \in Tilings(T) \cup Defective(T)
    /\ self_stateseq_norep = <<0>> /\ self_durations = <<T>>

NextBlock ==
    \/ BlockResample
    \/ BlockBetastarl
    \/ BlockBetal
    \/ BlockBackwardReturn
    \/ BlockSampleIter
    \/ BlockSampleReturn

SpecBlock == InitBlock /\ [][NextBlock]_vars

-----------------------------------------------------------------------------
\* HSMMStatesGeoApproximation

\* The attributes an HSMMStatesGeoApproximation object has when
\* messages_backwards runs: those assigned in the __init__ chain (lines 12-19,
\* 194-197, 557) and in resample (lines 265, 271).
GeoAttributes ==
    {"model", "T", "data", "stateseq", "censoring", "trunc",
     "stateseq_norep", "durations", "_hmm_states", "aBl"}

\* The attributes of the embedded HMMStates object (lines 12-19).
HMMAttributes == {"model", "T", "data", "stateseq"}

\* line 568: thediag[k] = exp(log_pmf(trunc+1) - log_pmf(trunc))
thediag(tr, k) ==
    IF DurPmf(dur_distns[k], tr) = Zero THEN NaN
    ELSE RDiv(DurPmf(dur_distns[k], tr + 1), DurPmf(dur_distns[k], tr))

\* 1 - x for a rational 0 <= x <= 1
OneMinus(x) == Rat(x[2] - x[1], x[2])

\* lines 566-570: hmm_A, a copy of A with the diagonal set to thediag and the
\* off-diagonal part of each row rescaled to sum to 1 - thediag
hmm_A(M, tr) ==
    [k \in States |-> [j \in States |->
        IF j = k THEN thediag(tr, k)
        ELSE RMul(M[k][j],
                  RDiv(OneMinus(thediag(tr, k)),
                       RSum([i \in States |-> IF i = k THEN Zero ELSE M[k][i]], 0, state_dim - 1)))]]

\* HMMStatesPython.messages_backwards (lines 73-81) as a function of the
\* matrix it reads and of aBl: rows tt .. 0 of betal, given the rows above
RECURSIVE HMMBackwardFrom(_, _, _, _)
HMMBackwardFrom(M, lik, tt, b) ==
    IF tt < 0 THEN b
    ELSE HMMBackwardFrom(M, lik, tt - 1, [b EXCEPT ![tt] = BackwardRow(b[tt + 1], M, lik[tt + 1])])

\* line 572: hmm_betal = self._hmm_states.messages_backwards(self.aBl); the
\* embedded object reads self.model.trans_distn.A (line 75)
hmm_betal(lik) == HMMBackwardFrom(A, lik, T - 2, Zeros(T))

\* lines 584-585: the geometric-tail term, added when t + trunc < T
GeoTerm(lik, tt, tr, k) ==
    IF tt + tr < T
    THEN RMul(likelihood_block_state(lik, tt, tt + tr + 1, k),
              RMul(aDsl(tr - 1, k), hmm_betal(lik)[tt + tr][k]))
    ELSE Zero

\* lines 581-589: the loop from pass tt down to 0, then betal[-1] = 0.
RECURSIVE GeoBackwardFrom(_, _, _, _, _)
GeoBackwardFrom(lik, tt, tr, b, bs) ==
    IF tt < 0 THEN [betal |-> [b EXCEPT ![T - 1] = OneVec], betastarl |-> bs]
    ELSE LET row == [k \in States |->
                        RAdd(RAdd(BetastarlSum(lik, b, tt, tr, k), GeoTerm(lik, tt, tr, k)),
                             CensoredTerm(lik, tt, tr, k))]
         IN GeoBackwardFrom(lik, tt - 1, tr, BetalWrite(b, tt, BetalRow(row, A)),
                            [bs EXCEPT ![tt] = row])

\* resample (lines 260-279) up to the call of messages_backwards
GeoResample ==
    /\ pc = "ready" /\ cls = "Geo"
    /\ entry' = "resample"
    /\ trunc' = IF trunc = NoTrunc THEN T ELSE trunc
    /\ aBl' = get_aBl(data, T)
    /\ pc' = "geo_backwards"
    /\ UNCHANGED <<objVars, modelVars, err, aBBl, alphal, betal, betastarl, t, expectations,
                   idx, nextstate_unsmoothed, durVars, seqVars>>

\* messages_backwards, lines 559-591, and the entry of sample_forwards.  The
\* assertions of lines 561-562 come first; line 566 copies A; line 567 reads
\* self.state_dim and line 571 reads self._hmm_states.transition_distn, and
\* reading an attribute the object does not have raises AttributeError.
GeoMessagesBackwards ==
    /\ pc = "geo_backwards"
    /\ IF trunc <= 1
       THEN /\ pc' = "raised" /\ err' = "AssertionError:562"
            /\ UNCHANGED <<betal, betastarl, idx, nextstate_unsmoothed, localVars, self_stateseq>>
       ELSE IF "state_dim" \notin GeoAttributes
       THEN /\ pc' = "raised" /\ err' = "AttributeError:567"
            /\ UNCHANGED <<betal, betastarl, idx, nextstate_unsmoothed, localVars, self_stateseq>>
       ELSE IF "transition_distn" \notin HMMAttributes
       THEN /\ pc' = "raised" /\ err' = "AttributeError:571"
            /\ UNCHANGED <<betal, betastarl, idx, nextstate_unsmoothed, localVars, self_stateseq>>
       ELSE /\ betal' = GeoBackwardFrom(aBl, T - 1, trunc, Zeros(T), Zeros(T)).betal
            /\ betastarl' = GeoBackwardFrom(aBl, T - 1, trunc, Zeros(T), Zeros(T)).betastarl
            /\ stateseq' = [i \in 0 .. (T - 1) |-> 0]
            /\ self_stateseq' = [i \in 0 .. (T - 1) |-> 0]
            /\ durations' = <<>>
            /\ stateseq_norep' = <<>>
            /\ idx' = 0
            /\ nextstate_unsmoothed' = <<"pi0", 0>>
            /\ pc' = "hsmm_state"
            /\ UNCHANGED err
    /\ UNCHANGED <<objVars, modelVars, trunc, entry, aBl, aBBl, alphal, t, expectations,
                   durVars, self_stateseq_norep, self_durations>>

\* The geometric-tail object after construction with data and an explicit
\* stateseq argument (lines 555-557).
InitGeo ==
    /\ InitCommon
    /\ cls = "Geo"
    /\ data \in DataChoices(Obs, T)
    /\ A \in NoSelfA
    /\ dur_distns \in [States -> DurKinds]
    /\ censoring \in BOOLEAN
    /\ trunc \in {NoTrunc} \cup (1 .. T)
    /\ changepoints = <<>>
    /\ self_stateseq_norep = <<0>> /\ self_durations = <<T>>

NextGeo ==
    \/ GeoResample
    \/ GeoMessagesBackwards

SpecGeo == InitGeo /\ [][NextGeo]_vars

-----------------------------------------------------------------------------
\* All four classes.

Init == InitHMM \/ InitHSMM \/ InitBlock \/ InitGeo

Next == NextHMM \/ NextHSMM \/ NextBlock \/ NextGeo

Spec == Init /\ [][Next]_vars

-----------------------------------------------------------------------------
\* Properties of HMMStatesPython

\* the state paths of length n
Paths(n) == [0 .. (n - 1) -> States]

\* pi0[s0] * prod_t A[s(t-1),s(t)] * prod_t exp(aBl[t,s(t)]) of one path
PathWeight(path, n) ==
    RProd([i \in 0 .. (n - 1) |->
              RMul(IF i = 0 THEN pi0[path[0]] ELSE A[path[i - 1]][path[i]],
                   ObsLik(data[i])[path[i]])], 0, n - 1)

RECURSIVE SumOfPaths(_, _)
SumOfPaths(S, n) ==
    IF S = {} THEN Zero
    ELSE LET x == CHOOSE y \in S : TRUE
         IN RAdd(PathWeight(x, n), SumOfPaths(S \ {x}, n))

\* the marginal likelihood by enumeration of all K^T paths
BruteForceLikelihood == SumOfPaths(Paths(T), T)

\* messages_forwards has returned alphal
ForwardsReturned == cls = "HMM" /\ entry = "E_step" /\ pc \in {"hmm_backwards", "done"}

\* C9: the sum over k of exp(alphal[T-1,k]) that messages_forwards returns
\* equals the sum over all K^T state paths of
\* pi0[s0] * prod A[s(t-1),s(t)] * prod exp(aBl[t,s(t)]).
C9_ForwardIsMarginalLikelihood ==
    ForwardsReturned => RSum(alphal[T - 1], 0, state_dim - 1) = BruteForceLikelihood

\* a forward pass of T >= 2 steps over a matrix with a forbidden transition
\* and a non-symmetric row, on data of positive likelihood
C9_Witness ==
    /\ ForwardsReturned /\ T >= 2
    /\ \E j, k \in States : A[j][k] = Zero
    /\ \E j, k \in States : j # k /\ A[j][k] # A[k][j]
    /\ BruteForceLikelihood # Zero

\* the pending distribution under which seq[i] was drawn gives it positive mass
PendingPositive(seq, i) ==
    IF i = 0 THEN pi0[seq[0]] # Zero ELSE A[seq[i - 1]][seq[i]] # Zero

\* C4: every state sample_forwards draws has strictly positive pending
\* probability: pi0[stateseq[0]] > 0 and A[stateseq[t-1], stateseq[t]] > 0
\* for t >= 1, during the walk and in the sequence it stores.
C4_SampledStatesAllowed ==
    /\ (cls = "HMM" /\ pc = "hmm_sample") =>
           \A i \in 0 .. (idx - 1) : PendingPositive(stateseq, i)
    /\ (cls = "HMM" /\ pc = "done" /\ entry = "resample") =>
           \A i \in 0 .. (T - 1) : PendingPositive(self_stateseq, i)

\* a finished walk during which some state had pending probability exactly 0
\* although the messages and the likelihood gave it positive weight
C4_Witness ==
    /\ cls = "HMM" /\ pc = "done" /\ entry = "resample" /\ T >= 2
    /\ \E k \in States :
          /\ A[self_stateseq[0]][k] = Zero
          /\ aBl[1][k] # Zero /\ betal[1][k] # Zero

-----------------------------------------------------------------------------
\* Properties of HSMMStatesPython.sample_forwards

RECURSIVE SeqSum(_)
SeqSum(q) == IF q = <<>> THEN 0 ELSE q[1] + SeqSum(Tail(q))

\* sample_forwards has returned through resample
HSMMSampled == cls = "HSMM" /\ pc = "done"

\* C1 as stated: after sample_forwards sum(durations) == T exactly and
\* len(stateseq_norep) == len(durations).
C1_DurationsSumToT ==
    HSMMSampled => /\ SeqSum(self_durations) = T
                   /\ Len(self_stateseq_norep) = Len(self_durations)

\* C1 as amended: after sample_forwards len(stateseq_norep) == len(durations),
\* every duration is >= 1, the durations before the last one sum to less
\* than T, and sum(durations) >= T.
C1_DurationsCoverT ==
    HSMMSampled =>
        /\ Len(self_stateseq_norep) = Len(self_durations)
        /\ Len(self_durations) >= 1
        /\ \A i \in 1 .. Len(self_durations) : self_durations[i] >= 1
        /\ SeqSum(SubSeq(self_durations, 1, Len(self_durations) - 1)) < T
        /\ SeqSum(self_durations) >= T

\* a finished walk of two segments whose last segment runs past T
C1_Witness ==
    /\ HSMMSampled /\ censoring
    /\ Len(self_durations) = 2
    /\ SeqSum(self_durations) > T

\* C2: consecutive entries of stateseq_norep are never equal and neither
\* no-repeat assertion (line 311, line 347) fails.
C2_NoRepeat ==
    cls = "HSMM" =>
        /\ err \notin {"AssertionError:311", "AssertionError:347"}
        /\ \A i \in 1 .. (Len(stateseq_norep) - 1) : stateseq_norep[i] # stateseq_norep[i + 1]

\* C10: with censoring disabled the last recorded duration is T - idx for the
\* idx at which its segment started, so idx + d == T when the walk stops.
C10_ClippedToT ==
    (HSMMSampled /\ ~censoring) =>
        /\ idx = T
        /\ SeqSum(self_durations) = T

-----------------------------------------------------------------------------
\* Properties of messages_backwards

\* messages_backwards of HMMStatesPython or HSMMStatesPython is running and
\* has passes left that read betal, or it has returned
BetalInUseOrReturned ==
    \/ cls = "HMM" /\ pc \in {"hmm_backwards", "hmm_sample"}
    \/ cls = "HMM" /\ pc \in {"done", "raised"} /\ betal # <<>>
    \/ cls = "HSMM" /\ pc = "hsmm_betastarl" /\ t >= 0
    \/ cls = "HSMM" /\ pc \in {"hsmm_betal", "hsmm_state", "hsmm_dur", "done", "raised"}

\* C3: betal[T-1,:] == 0 in the matrix HMMStatesPython.messages_backwards
\* returns and in the matrix HSMMStatesPython.messages_backwards returns, and
\* at every pass of either recursion that reads row T-1: the write of pass
\* t = 0, which lands on row T-1, comes after every read.
C3_LastRowZero == BetalInUseOrReturned => betal[T - 1] = OneVec

\* the HSMM recursion has returned, its passes t < T-1 read row T-1, and the
\* row that pass t = 0 wrote onto row T-1 was not 0
C3_Witness ==
    /\ cls = "HSMM" /\ pc = "hsmm_state" /\ idx = 0
    /\ T >= 2 /\ trunc >= 2
    /\ BetalRow(betastarl[0], A) # OneVec
    /\ betal[T - 1] = OneVec

\* the changepoints [(0,1),(1,2),...,(T-1,T)]
SingletonChangepoints == [i \in 1 .. T |-> <<i - 1, i>>]

\* C5: with the T singleton changepoints the block variant's
\* messages_backwards returns the betal and betastarl that
\* HSMMStatesPython.messages_backwards returns for the same inputs.
C5_SingletonBlocksMatchHSMM ==
    (cls = "Changepoints" /\ changepoints = SingletonChangepoints /\ pc # "ready") =>
        /\ pc # "raised"
        /\ pc \in {"block_sample", "done"} =>
               /\ betal = HSMM_messages_backwards(get_aBl(data, T), trunc).betal
               /\ betastarl = HSMM_messages_backwards(get_aBl(data, T), trunc).betastarl

\* C6: with trunc == T the geometric-tail messages_backwards completes and
\* returns the betal and betastarl of HSMMStatesPython.messages_backwards.
C6_GeoWithFullTruncIsExact ==
    (cls = "Geo" /\ trunc = T /\ pc \notin {"ready", "geo_backwards"}) =>
        /\ err = "none"
        /\ betal = HSMM_messages_backwards(aBl, trunc).betal
        /\ betastarl = HSMM_messages_backwards(aBl, trunc).betastarl

\* C7: changepoints that do not tile [0,T) are rejected with an
\* InvalidPartitionError and no state sequence is produced.
C7_InvalidPartitionRejected ==
    (cls = "Changepoints" /\ ~Tiles(changepoints, T)) =>
        /\ pc \notin {"block_sample", "done"}
        /\ err \in {"none", "InvalidPartitionError"}

-----------------------------------------------------------------------------
\* Properties of the model object

\* C8: no step of any inference operation of any of the four classes changes
\* the model's transition matrix A or its initial distribution pi0.
C8_ModelNotMutated == [][A' = A /\ pi0' = pi0]_vars

\* an HMM sample_forwards that has gone through pi0 and through a row of A,
\* each time producing weights that differ from the pending distribution
C8_Witness ==
    /\ cls = "HMM" /\ pc = "done" /\ entry = "resample" /\ T >= 2
    /\ HMMSampleWeights(A, pi0, <<"pi0", 0>>, betal[0], aBl[0]).w # pi0
    /\ HMMSampleWeights(A, pi0, <<"A", self_stateseq[0]>>, betal[1], aBl[1]).w
           # A[self_stateseq[0]]

-----------------------------------------------------------------------------
\* Properties of the duration loop of HSMMStatesPython.sample_forwards

\* the pass of the duration loop that is about to run takes the censored
\* branch of lines 336-338: the segment of the sampled state has run to T
CensoredPass ==
    /\ cls = "HSMM" /\ pc = "hsmm_dur" /\ durprob = "gt0" /\ censoring
    /\ dur < 2 * T /\ p_d_marg(state, dur) # Zero /\ idx + dur >= T

\* what sample_discrete can return for the tail pmf(dur+1 .. 3T-1) of the
\* duration distribution of state k
TailDrawsOf(k, d) ==
    sample_discrete([i \in 0 .. (3 * T - d - 2) |-> DurPmf(dur_distns[k], d + 1 + i)])

\* C11: with censoring enabled, the overflow duration of a segment of sampled
\* state k that runs to T is drawn from the tail of the duration distribution
\* of state k itself, for every k.
C11_OverflowFromOwnDistribution ==
    [][CensoredPass =>
          IF TailDrawsOf(state, dur) = {} THEN pc' = "raised"
          ELSE pc' = "hsmm_dur" /\ dur' - dur \in TailDrawsOf(state, dur)]_vars

\* the duration loop of lines 316-341 has been left (or was never entered)
DurationLoopExited == cls = "HSMM" /\ pc = "hsmm_dur" /\ durprob = "le0"

\* C12: in sample_forwards the duration loop exits with dur >= 1, the guard
\* `dur < 2*T` of line 317 never fails, idx strictly increases on every outer
\* iteration, and no exception ends the walk before idx >= T.
C12_SampleForwardsTerminates ==
    /\ [](cls = "HSMM" => /\ err # "AssertionError:317"
                          /\ DurationLoopExited => dur >= 1
                          /\ pc # "raised")
    /\ [][(cls = "HSMM" /\ pc = "hsmm_dur" /\ pc' = "hsmm_state") => idx' > idx]_vars

-----------------------------------------------------------------------------
\* Properties of HSMMStatesGeoApproximation.messages_backwards

\* line 568 is defined for every state: no division by a zero pmf(trunc)
ThediagDefined == \A k \in States : DurPmf(dur_distns[k], trunc) # Zero

\* the HMM backward pass of lines 73-81 over the auxiliary matrix of lines
\* 566-570
AuxiliaryBetal == HMMBackwardFrom(hmm_A(A, trunc), aBl, T - 2, Zeros(T))

\* C13: the embedded HMM backward pass that yields hmm_betal is computed, and
\* the matrix it reads is the auxiliary one built in the call, not the
\* model's A.
C13_EmbeddedPassUsesAuxiliaryMatrix ==
    (cls = "Geo" /\ trunc > 1 /\ ThediagDefined) =>
        /\ pc = "geo_backwards" => hmm_betal(aBl) = AuxiliaryBetal
        /\ pc = "raised" => err \notin {"AttributeError:567", "AttributeError:571"}

====
